---- MODULE Spec2Model ----
(***************************************************************************)
(* Containment Policy engine of chimera_factory.security.containment:      *)
(* operation gating, resource-quota accounting and escalation, modelled    *)
(* for one ContainmentPolicy instance that is called sequentially.         *)
(*                                                                         *)
(* Strings are sequences of one-character strings, so that `in`,           *)
(* str.startswith and str.upper are computed as Python computes them.      *)
(* MEMORY and STORAGE amounts are counted in MiB (1 MiB = 1024*1024 bytes);*)
(* thresholds are kept as ten-thousandths so that max_amount * threshold   *)
(* is compared exactly with integers.                                      *)
(***************************************************************************)
EXTENDS Integers, Sequences, FiniteSets, TLC

\* ------------------------------------------------------------------------
\* Bounds of the model
\* ------------------------------------------------------------------------

\* number of public calls made on the instance in one behaviour
MaxCalls ==
    2

\* largest value of the clock read by time.time()
MaxTime ==
    1

\* start_heartbeat is invoked at most this many times
MaxHeartbeatCalls ==
    3

\* max_requests of the rate limiter under test
LimiterMaxRequests ==
    2

\* window_seconds of the rate limiter under test
LimiterWindowSeconds ==
    3

\* calls made on the rate limiter beyond its max_requests
MaxExtraCalls ==
    2

\* seconds the clock of the rate limiter runs beyond window_seconds
MaxExtraTime ==
    2

\* readings of the clock within one second: time.time() is a float, the rate
\* limiter truncates it to whole seconds
TicksPerSecond ==
    2

\* calls of check_rate_limit in one behaviour
MaxPlatformCalls ==
    2

\* ------------------------------------------------------------------------
\* String literals of the source and of the calls
\* ------------------------------------------------------------------------

\* '/etc'
S_etc ==
    <<"/", "e", "t", "c">>
\* '/proc'
S_proc ==
    <<"/", "p", "r", "o", "c">>
\* '/sys'
S_sys ==
    <<"/", "s", "y", "s">>
\* '/root'
S_root ==
    <<"/", "r", "o", "o", "t">>
\* '10.'
S_ip10 ==
    <<"1", "0", ".">>
\* '172.16.'
S_ip172 ==
    <<"1", "7", "2", ".", "1", "6", ".">>
\* '192.168.'
S_ip192 ==
    <<"1", "9", "2", ".", "1", "6", "8", ".">>
\* 'subprocess'
S_subprocess ==
    <<"s", "u", "b", "p", "r", "o", "c", "e", "s", "s">>
\* 'os.system'
S_os_system ==
    <<"o", "s", ".", "s", "y", "s", "t", "e", "m">>
\* 'eval'
S_eval ==
    <<"e", "v", "a", "l">>
\* 'exec'
S_exec ==
    <<"e", "x", "e", "c">>
\* 'apt-get'
S_apt_get ==
    <<"a", "p", "t", "-", "g", "e", "t">>
\* 'pip install'
S_pip_install ==
    <<"p", "i", "p", " ", "i", "n", "s", "t", "a", "l", "l">>
\* 'npm install'
S_npm_install ==
    <<"n", "p", "m", " ", "i", "n", "s", "t", "a", "l", "l">>
\* 'DROP TABLE'
S_DROP_TABLE ==
    <<"D", "R", "O", "P", " ", "T", "A", "B", "L", "E">>
\* 'DROP DATABASE'
S_DROP_DATABASE ==
    <<"D", "R", "O", "P", " ", "D", "A", "T", "A", "B", "A", "S", "E">>
\* 'TRUNCATE'
S_TRUNCATE ==
    <<"T", "R", "U", "N", "C", "A", "T", "E">>
\* 'ALTER TABLE'
S_ALTER_TABLE ==
    <<"A", "L", "T", "E", "R", " ", "T", "A", "B", "L", "E">>
\* 'rate_limit'
S_rate_limit ==
    <<"r", "a", "t", "e", "_", "l", "i", "m", "i", "t">>
\* 'default'
N_default ==
    <<"d", "e", "f", "a", "u", "l", "t">>
\* 'agent-1'
I_agent ==
    <<"a", "g", "e", "n", "t", "-", "1">>
\* 'trend_research'
I_trend_research ==
    <<"t", "r", "e", "n", "d", "_", "r", "e", "s", "e", "a", "r", "c", "h">>

\* '/etc/passwd'
P_etc_passwd ==
    <<"/", "e", "t", "c", "/", "p", "a", "s", "s", "w", "d">>
\* '/app/data/file.txt'
P_app_file ==
    <<"/", "a", "p", "p", "/", "d", "a", "t", "a", "/", "f", "i", "l", "e", ".", "t", "x", "t">>
\* 'http://192.168.1.1/api'
U_private_scheme ==
    <<"h", "t", "t", "p", ":", "/", "/", "1", "9", "2", ".", "1", "6", "8", ".", "1", ".", "1", "/", "a", "p", "i">>
\* '192.168.1.1'
U_private_bare ==
    <<"1", "9", "2", ".", "1", "6", "8", ".", "1", ".", "1">>
\* 'https://api.example.com'
U_public ==
    <<"h", "t", "t", "p", "s", ":", "/", "/", "a", "p", "i", ".", "e", "x", "a", "m", "p", "l", "e", ".", "c", "o", "m">>
\* '10.0.0.5'
U_ten ==
    <<"1", "0", ".", "0", ".", "0", ".", "5">>
\* "subprocess.run(['rm', '-rf', '/'])"
K_subprocess_run ==
    <<"s", "u", "b", "p", "r", "o", "c", "e", "s", "s", ".", "r", "u", "n", "(", "[", "'", "r", "m", "'", ",", " ", "'", "-", "r", "f", "'", ",", " ", "'", "/", "'", "]", ")">>
\* 'ls -l'
K_ls ==
    <<"l", "s", " ", "-", "l">>
\* 'pip install requests'
K_pip ==
    <<"p", "i", "p", " ", "i", "n", "s", "t", "a", "l", "l", " ", "r", "e", "q", "u", "e", "s", "t", "s">>
\* 'evaluate'
K_evaluate ==
    <<"e", "v", "a", "l", "u", "a", "t", "e">>
\* 'DROP TABLE users'
Q_DROP ==
    <<"D", "R", "O", "P", " ", "T", "A", "B", "L", "E", " ", "u", "s", "e", "r", "s">>
\* 'drop table users'
Q_drop_lower ==
    <<"d", "r", "o", "p", " ", "t", "a", "b", "l", "e", " ", "u", "s", "e", "r", "s">>
\* 'SELECT 1'
Q_select ==
    <<"S", "E", "L", "E", "C", "T", " ", "1">>
\* 'Truncate t'
Q_truncate ==
    <<"T", "r", "u", "n", "c", "a", "t", "e", " ", "t">>

\* ------------------------------------------------------------------------
\* Python string operations
\* ------------------------------------------------------------------------

\* needle in hay
Contains(needle, hay) ==
    \E i \in 1..(Len(hay) - Len(needle) + 1) :
        SubSeq(hay, i, i + Len(needle) - 1) = needle

\* hay.startswith(prefix)
StartsWith(hay, prefix) ==
    /\ Len(prefix) <= Len(hay)
    /\ SubSeq(hay, 1, Len(prefix)) = prefix

LowerChars ==
    <<"a", "b", "c", "d", "e", "f", "g", "h", "i", "j", "k", "l", "m",
      "n", "o", "p", "q", "r", "s", "t", "u", "v", "w", "x", "y", "z">>

UpperChars ==
    <<"A", "B", "C", "D", "E", "F", "G", "H", "I", "J", "K", "L", "M",
      "N", "O", "P", "Q", "R", "S", "T", "U", "V", "W", "X", "Y", "Z">>

UpperChar(c) ==
    IF \E i \in 1..26 : LowerChars[i] = c
    THEN UpperChars[CHOOSE i \in 1..26 : LowerChars[i] = c]
    ELSE c

\* variant of Upper: the text is compared as it was written
Upper_identity(s) ==
    s

\* s.upper()
Upper(s) ==
    [i \in 1..Len(s) |-> UpperChar(s[i])]

\* d.get(key, default)
DictGet(d, key, default) ==
    IF key \in DOMAIN d THEN d[key] ELSE default

\* Python's None (an absent warning message, an absent window)
None ==
    [kind |-> "None"]

\* ------------------------------------------------------------------------
\* Enumerations
\* ------------------------------------------------------------------------

OperationType ==
    {"file_system", "network", "process", "database",
     "content_generation", "api_call", "skill_execution"}

ResourceType ==
    {"memory", "cpu_time", "api_requests", "storage",
     "database_connections", "redis_connections", "concurrent_tasks"}

EscalationSeverity ==
    {"warning", "block", "terminate", "hitl_review"}

\* ------------------------------------------------------------------------
\* Static policy tables
\* ------------------------------------------------------------------------

FORBIDDEN_OPERATIONS ==
    [read_outside_sandbox    |-> <<S_etc, S_proc, S_sys, S_root>>,
     write_outside_sandbox   |-> <<S_etc, S_proc, S_sys, S_root>>,
     delete_system_files     |-> <<S_etc, S_proc, S_sys, S_root>>,
     private_ip_ranges       |-> <<S_ip10, S_ip172, S_ip192>>,
     non_whitelisted_domains |-> <<>>,
     shell_commands          |-> <<S_subprocess, S_os_system, S_eval, S_exec>>,
     package_installation    |-> <<S_apt_get, S_pip_install, S_npm_install>>,
     dangerous_sql           |-> <<S_DROP_TABLE, S_DROP_DATABASE, S_TRUNCATE, S_ALTER_TABLE>>]

\* denominator of the threshold fractions below (0.8 is 8000 / ThresholdScale)
ThresholdScale ==
    10000

\* max_amount of MEMORY and STORAGE is in MiB, the others in their own unit
RESOURCE_QUOTAS ==
    [memory |->
        [resource_type |-> "memory", max_amount |-> 512,
         warning_threshold |-> 8000, critical_threshold |-> 9375,
         window_seconds |-> None],
     cpu_time |->
        [resource_type |-> "cpu_time", max_amount |-> 60,
         warning_threshold |-> 7500, critical_threshold |-> 9160,
         window_seconds |-> None],
     api_requests |->
        [resource_type |-> "api_requests", max_amount |-> 500,
         warning_threshold |-> 8000, critical_threshold |-> 8000,
         window_seconds |-> 3600],
     storage |->
        [resource_type |-> "storage", max_amount |-> 1024,
         warning_threshold |-> 8000, critical_threshold |-> 9500,
         window_seconds |-> None],
     database_connections |->
        [resource_type |-> "database_connections", max_amount |-> 10,
         warning_threshold |-> 8000, critical_threshold |-> 8000,
         window_seconds |-> None],
     redis_connections |->
        [resource_type |-> "redis_connections", max_amount |-> 20,
         warning_threshold |-> 8000, critical_threshold |-> 8000,
         window_seconds |-> None],
     concurrent_tasks |->
        [resource_type |-> "concurrent_tasks", max_amount |-> 5,
         warning_threshold |-> 8000, critical_threshold |-> 8000,
         window_seconds |-> None]]

\* ------------------------------------------------------------------------
\* Inputs of the calls
\* ------------------------------------------------------------------------

\* amounts passed to check_resource_quota (MiB for memory and storage)
Amounts ==
    {0, 4, 50, 100, 400, 500}

\* amounts passed to check_resource_quota by a caller that does not keep to
\* amounts >= 0 (the parameter is a float and is not validated)
SignedAmounts ==
    {-50, -4, 4, 50, 400}

\* (trigger, context) pairs passed to _escalate and should_escalate
EscalationInputs ==
    { <<"resource_quota_critical", [resource_type |-> "memory"]>>,
      <<"low_confidence", [confidence_percent |-> 75]>> }

\* parameter bags passed to check_operation_allowed
ParamBags ==
    { [operation |-> "all_forbidden", path |-> P_etc_passwd, url |-> U_private_bare,
       command |-> K_subprocess_run, query |-> Q_DROP],
      [operation |-> "all_clean", path |-> P_app_file, url |-> U_public,
       command |-> K_ls, query |-> Q_select],
      [operation |-> "variants", path |-> S_root, url |-> U_ten,
       command |-> K_evaluate, query |-> Q_drop_lower],
      \* no path: operation_params.get("path", "") takes its default
      [operation |-> "disputed", url |-> U_private_scheme, command |-> K_pip,
       query |-> Q_truncate] }

\* ------------------------------------------------------------------------
\* State of one ContainmentPolicy instance and of its caller
\* ------------------------------------------------------------------------

VARIABLES
    agent_id,           \* self.agent_id
    resource_usage,     \* self.resource_usage: dict ResourceType -> usage
    operation_history,  \* self.operation_history: list of event records
    escalation_log,     \* self.escalation_log: list of escalation records
    now,                \* the clock read by time.time()
    calls,              \* number of public calls made so far
    last,               \* what the caller observed of the most recent call
    threads,            \* the check_resource_quota frame of each calling thread
    cache,              \* the Redis keys: key -> value and expiry time
    limiter_log,        \* what the callers of the rate limiter observed
    heap,               \* the objects allocated by ContainmentPolicy instances
    policies,           \* agent_id -> the attributes of its ContainmentPolicy
    callee,             \* the instance the most recent call was made on
    _running,           \* OpenClawStatusService._running
    _heartbeat_task,    \* OpenClawStatusService._heartbeat_task
    loops               \* the start_heartbeat coroutines and where they stand

\* the state of concurrent callers of one policy
threadVars ==
    <<threads>>

\* the state of the rate limiter and its cache
limiterVars ==
    <<cache, limiter_log>>

\* the state of a process that holds several policies
instanceVars ==
    <<heap, policies, callee>>

\* the state of the status service
heartbeatVars ==
    <<_running, _heartbeat_task, loops>>

vars ==
    <<agent_id, resource_usage, operation_history, escalation_log, now, calls, last,
      threadVars, limiterVars, instanceVars, heartbeatVars>>

\* the threads that call check_resource_quota on the same instance
Threads ==
    {"thread-1", "thread-2"}

\* the frame of a thread that is not inside check_resource_quota; the result
\* fields hold what its most recent call returned
IdleThread ==
    [pc |-> "idle", resource_type |-> "none", amount |-> 0, current_usage |-> 0,
     new_usage |-> 0, raised |-> "none", allowed |-> FALSE, warning |-> None]

\* the invocations of start_heartbeat
HeartbeatCalls ==
    1..MaxHeartbeatCalls

\* a start_heartbeat invocation that has not been made yet
NotStarted ==
    [pc |-> "new", stopped |-> FALSE]

\* operation_params of a `last` record that is not about check_operation_allowed
NoParams ==
    [operation |-> "none"]

\* `last` before any call has been made
NoCall ==
    [op |-> "none", type |-> "none", operation_params |-> NoParams, amount |-> 0,
     raised |-> "none", allowed |-> FALSE, warning |-> None, trace |-> <<>>]

\* ------------------------------------------------------------------------
\* Helpers of the policy
\* ------------------------------------------------------------------------

\* any(pattern in text for pattern in patterns)
AnyContained(patterns, text) ==
    \E i \in 1..Len(patterns) : Contains(patterns[i], text)

\* any(text.startswith(prefix) for prefix in prefixes)
AnyPrefix(prefixes, text) ==
    \E i \in 1..Len(prefixes) : StartsWith(text, prefixes[i])

\* variant of _is_forbidden_operation: a parameter is checked whatever the
\* operation type
_is_forbidden_operation_ungated(operation_type, operation_params) ==
    \/ AnyContained(FORBIDDEN_OPERATIONS.read_outside_sandbox,
                    DictGet(operation_params, "path", <<>>))
    \/ AnyPrefix(FORBIDDEN_OPERATIONS.private_ip_ranges,
                 DictGet(operation_params, "url", <<>>))
    \/ AnyContained(FORBIDDEN_OPERATIONS.shell_commands,
                    DictGet(operation_params, "command", <<>>))
    \/ AnyContained(FORBIDDEN_OPERATIONS.dangerous_sql,
                    Upper(DictGet(operation_params, "query", <<>>)))

_is_forbidden_operation(operation_type, operation_params) ==
    \/ /\ operation_type = "file_system"
       /\ AnyContained(FORBIDDEN_OPERATIONS.read_outside_sandbox,
                       DictGet(operation_params, "path", <<>>))
    \/ /\ operation_type = "network"
       /\ AnyPrefix(FORBIDDEN_OPERATIONS.private_ip_ranges,
                    DictGet(operation_params, "url", <<>>))
    \/ /\ operation_type = "process"
       /\ AnyContained(FORBIDDEN_OPERATIONS.shell_commands,
                       DictGet(operation_params, "command", <<>>))
    \/ /\ operation_type = "database"
       /\ AnyContained(FORBIDDEN_OPERATIONS.dangerous_sql,
                       Upper(DictGet(operation_params, "query", <<>>)))

\* variant of _log_security_event: a violation already in the history is not
\* logged again
_log_security_event_dedup(history, event) ==
    IF \E i \in 1..Len(history) :
           /\ "violation_type" \in DOMAIN history[i]
           /\ history[i].operation_type = event.operation_type
           /\ history[i].operation_params = event.operation_params
    THEN history
    ELSE Append(history, event)

\* self.operation_history.append(event)
_log_security_event(history, event) ==
    Append(history, event)

\* variant of _log_resource_violation: the violation goes to the logger only
_log_resource_violation_lost(history, violation) ==
    history

\* self.operation_history.append(violation)
_log_resource_violation(history, violation) ==
    Append(history, violation)

\* variant of FatalSeverities: block is logged and does not raise
FatalSeverities_terminate_only ==
    {"terminate"}

\* severities for which _escalate raises EscalationTriggeredError
FatalSeverities ==
    {"terminate", "block"}

\* variant of _escalate: the log keeps the latest escalation only
_escalate_keeps_latest(log, agent, trigger, severity, context, t) ==
    LET escalation == [agent_id |-> agent, trigger |-> trigger, severity |-> severity,
                       context |-> context, timestamp |-> t]
        fatal == severity \in FatalSeverities
    IN  [escalation_log |-> <<escalation>>,
         raised |-> IF fatal THEN "EscalationTriggeredError" ELSE "none",
         trace  |-> <<"escalation_log.append">>
                    \o (IF fatal THEN <<"raise EscalationTriggeredError">> ELSE <<>>)]

\* variant of _escalate: a fatal severity raises before the record is appended
_escalate_raise_first(log, agent, trigger, severity, context, t) ==
    LET escalation == [agent_id |-> agent, trigger |-> trigger, severity |-> severity,
                       context |-> context, timestamp |-> t]
        fatal == severity \in FatalSeverities
    IN  IF fatal
        THEN [escalation_log |-> log,
              raised |-> "EscalationTriggeredError",
              trace  |-> <<"raise EscalationTriggeredError">>]
        ELSE [escalation_log |-> Append(log, escalation),
              raised |-> "none",
              trace  |-> <<"escalation_log.append">>]

\* _escalate: the new escalation_log, the exception it raises ("none" when it
\* returns) and the order of its effects
_escalate(log, agent, trigger, severity, context, t) ==
    LET escalation == [agent_id |-> agent, trigger |-> trigger, severity |-> severity,
                       context |-> context, timestamp |-> t]
        fatal == severity \in FatalSeverities
    IN  [escalation_log |-> Append(log, escalation),
         raised |-> IF fatal THEN "EscalationTriggeredError" ELSE "none",
         trace  |-> <<"escalation_log.append">>
                    \o (IF fatal THEN <<"raise EscalationTriggeredError">> ELSE <<>>)]

\* variant of should_escalate: the hitl_review test is missing
should_escalate_no_hitl(trigger_type, severity, context) ==
    IF severity \in {"terminate", "block"} THEN TRUE
    ELSE IF severity = "warning" THEN TRUE
    ELSE FALSE

\* should_escalate(trigger_type, severity, context)
should_escalate(trigger_type, severity, context) ==
    IF severity \in {"terminate", "block"} THEN TRUE
    ELSE IF severity = "warning" THEN TRUE
    ELSE IF severity = "hitl_review" THEN TRUE
    ELSE FALSE

\* variant of ExceedsCritical: the test is made against max_amount itself
ExceedsCritical_ignores_threshold(quota, new_usage) ==
    new_usage * ThresholdScale > quota.max_amount * ThresholdScale

\* new_usage > quota.max_amount * quota.critical_threshold
ExceedsCritical(quota, new_usage) ==
    new_usage * ThresholdScale > quota.max_amount * quota.critical_threshold

\* variant of ExceedsWarning: >= in place of >
ExceedsWarning_inclusive(quota, new_usage) ==
    new_usage * ThresholdScale >= quota.max_amount * quota.warning_threshold

\* new_usage > quota.max_amount * quota.warning_threshold
ExceedsWarning(quota, new_usage) ==
    new_usage * ThresholdScale > quota.max_amount * quota.warning_threshold

\* round(n / d) to the nearest integer, ties to even, as the format spec .1f does
RoundHalfEven(n, d) ==
    LET q == n \div d
        r == n % d
    IN  IF 2 * r < d THEN q
        ELSE IF 2 * r > d THEN q + 1
        ELSE IF q % 2 = 0 THEN q ELSE q + 1

\* the warning string: the resource and new_usage/max_amount*100 to one decimal
WarningMessage(resource_type, quota, new_usage) ==
    [kind |-> "Resource quota warning", resource_type |-> resource_type,
     percent_tenths |-> RoundHalfEven(new_usage * 1000, quota.max_amount)]

\* variant of SetUsage: the dict is rebuilt with the one entry
SetUsage_overwrite(usage, resource_type, new_usage) ==
    [r \in {resource_type} |-> new_usage]

\* self.resource_usage[resource_type] = new_usage
SetUsage(usage, resource_type, new_usage) ==
    [r \in (DOMAIN usage) \cup {resource_type} |->
        IF r = resource_type THEN new_usage ELSE usage[r]]

\* ------------------------------------------------------------------------
\* Public operations, as functions of the instance state
\* ------------------------------------------------------------------------

\* the attributes of the instance of the model
Self ==
    [agent_id |-> agent_id, resource_usage |-> resource_usage,
     operation_history |-> operation_history, escalation_log |-> escalation_log]

\* check_operation_allowed on the instance state `self` at clock reading t: the
\* attributes after the call and what the caller sees
check_operation_allowed_on(self, t, operation_type, operation_params) ==
    IF _is_forbidden_operation(operation_type, operation_params)
    THEN LET violation == [agent_id |-> self.agent_id, operation_type |-> operation_type,
                           operation_params |-> operation_params, timestamp |-> t,
                           violation_type |-> "forbidden_operation"]
         IN  [resource_usage |-> self.resource_usage,
              operation_history |-> _log_security_event(self.operation_history, violation),
              escalation_log |-> self.escalation_log,
              raised |-> "SecurityViolationError", allowed |-> FALSE, warning |-> None,
              trace |-> <<"operation_history.append", "raise SecurityViolationError">>]
    ELSE [resource_usage |-> self.resource_usage,
          operation_history |-> self.operation_history,
          escalation_log |-> self.escalation_log,
          raised |-> "none", allowed |-> TRUE, warning |-> None,
          trace |-> <<"return">>]

\* the refusal branch of check_resource_quota: log the violation, escalate with
\* severity terminate, raise; resource_usage is not written
CriticalBranch_on(self, t, resource_type, amount, quota, current_usage) ==
    LET violation == [agent_id |-> self.agent_id, resource_type |-> resource_type,
                      current_usage |-> current_usage,
                      requested_amount |-> amount,
                      quota_max |-> quota.max_amount,
                      threshold |-> quota.critical_threshold,
                      timestamp |-> t]
        esc == _escalate(self.escalation_log, self.agent_id, "resource_quota_critical",
                         "terminate", violation, t)
    IN  [resource_usage |-> self.resource_usage,
         operation_history |-> _log_resource_violation(self.operation_history, violation),
         escalation_log |-> esc.escalation_log,
         \* the raise statement after _escalate runs only if _escalate returns
         raised |-> IF esc.raised # "none" THEN esc.raised
                    ELSE "ResourceQuotaExceededError",
         allowed |-> FALSE, warning |-> None,
         trace |-> <<"operation_history.append">> \o esc.trace
                   \o (IF esc.raised # "none" THEN <<>>
                       ELSE <<"raise ResourceQuotaExceededError">>)]

\* the rest of check_resource_quota: the warning test, the usage update and
\* the return
AcceptBranch_on(self, t, resource_type, quota, new_usage) ==
    IF ExceedsWarning(quota, new_usage)
    THEN LET esc == _escalate(self.escalation_log, self.agent_id, "resource_quota_warning",
                              "warning",
                              [agent_id |-> self.agent_id,
                               resource_type |-> resource_type,
                               usage_percent |-> [num |-> new_usage * 100,
                                                  den |-> quota.max_amount]],
                              t)
         IN  IF esc.raised # "none"
             THEN [resource_usage |-> self.resource_usage,
                   operation_history |-> self.operation_history,
                   escalation_log |-> esc.escalation_log,
                   raised |-> esc.raised, allowed |-> FALSE, warning |-> None,
                   trace |-> esc.trace]
             ELSE [resource_usage |->
                       SetUsage(self.resource_usage, resource_type, new_usage),
                   operation_history |-> self.operation_history,
                   escalation_log |-> esc.escalation_log,
                   raised |-> "none", allowed |-> TRUE,
                   warning |-> WarningMessage(resource_type, quota, new_usage),
                   trace |-> esc.trace \o <<"resource_usage.set", "return">>]
    ELSE [resource_usage |-> SetUsage(self.resource_usage, resource_type, new_usage),
          operation_history |-> self.operation_history,
          escalation_log |-> self.escalation_log,
          raised |-> "none", allowed |-> TRUE, warning |-> None,
          trace |-> <<"resource_usage.set", "return">>]

\* check_resource_quota on the instance state `self` at clock reading t: the
\* attributes after the call and what the caller sees
check_resource_quota_on(self, t, resource_type, amount) ==
    IF resource_type \notin DOMAIN RESOURCE_QUOTAS
    THEN [resource_usage |-> self.resource_usage,
          operation_history |-> self.operation_history,
          escalation_log |-> self.escalation_log,
          raised |-> "none", allowed |-> TRUE, warning |-> None,
          trace |-> <<"return">>]
    ELSE
    LET quota == RESOURCE_QUOTAS[resource_type]
        current_usage == DictGet(self.resource_usage, resource_type, 0)
        new_usage == current_usage + amount
    IN  IF ExceedsCritical(quota, new_usage)
        THEN CriticalBranch_on(self, t, resource_type, amount, quota, current_usage)
        ELSE AcceptBranch_on(self, t, resource_type, quota, new_usage)

\* variant of check_operation_allowed: the forbidden path also escalates
check_operation_allowed_escalates(operation_type, operation_params) ==
    IF _is_forbidden_operation(operation_type, operation_params)
    THEN LET violation == [agent_id |-> agent_id, operation_type |-> operation_type,
                           operation_params |-> operation_params, timestamp |-> now,
                           violation_type |-> "forbidden_operation"]
             esc == _escalate(escalation_log, agent_id, "forbidden_operation",
                              "block", violation, now)
         IN  [resource_usage |-> resource_usage,
              operation_history |-> _log_security_event(operation_history, violation),
              escalation_log |-> esc.escalation_log,
              raised |-> IF esc.raised # "none" THEN esc.raised
                         ELSE "SecurityViolationError",
              allowed |-> FALSE, warning |-> None,
              trace |-> <<"operation_history.append">> \o esc.trace
                        \o (IF esc.raised # "none" THEN <<>>
                            ELSE <<"raise SecurityViolationError">>)]
    ELSE [resource_usage |-> resource_usage,
          operation_history |-> operation_history,
          escalation_log |-> escalation_log,
          raised |-> "none", allowed |-> TRUE, warning |-> None,
          trace |-> <<"return">>]

\* check_operation_allowed: the state after the call and what the caller sees
check_operation_allowed(operation_type, operation_params) ==
    check_operation_allowed_on(Self, now, operation_type, operation_params)

\* variant of CriticalBranch: the usage is written before the call is refused
CriticalBranch_commits(resource_type, amount, quota, current_usage) ==
    LET violation == [agent_id |-> agent_id, resource_type |-> resource_type,
                      current_usage |-> current_usage,
                      requested_amount |-> amount,
                      quota_max |-> quota.max_amount,
                      threshold |-> quota.critical_threshold,
                      timestamp |-> now]
        esc == _escalate(escalation_log, agent_id, "resource_quota_critical",
                         "terminate", violation, now)
    IN  [resource_usage |->
             SetUsage(resource_usage, resource_type, current_usage + amount),
         operation_history |-> _log_resource_violation(operation_history, violation),
         escalation_log |-> esc.escalation_log,
         raised |-> IF esc.raised # "none" THEN esc.raised
                    ELSE "ResourceQuotaExceededError",
         allowed |-> FALSE, warning |-> None,
         trace |-> <<"resource_usage.set", "operation_history.append">> \o esc.trace
                   \o (IF esc.raised # "none" THEN <<>>
                       ELSE <<"raise ResourceQuotaExceededError">>)]

\* the refusal branch of check_resource_quota, on the instance of the model
CriticalBranch(resource_type, amount, quota, current_usage) ==
    CriticalBranch_on(Self, now, resource_type, amount, quota, current_usage)

\* variant of AcceptBranch: the warning path returns before the usage update
AcceptBranch_skips_update(resource_type, quota, new_usage) ==
    IF ExceedsWarning(quota, new_usage)
    THEN LET esc == _escalate(escalation_log, agent_id, "resource_quota_warning",
                              "warning",
                              [agent_id |-> agent_id,
                               resource_type |-> resource_type,
                               usage_percent |-> [num |-> new_usage * 100,
                                                  den |-> quota.max_amount]],
                              now)
         IN  [resource_usage |-> resource_usage,
              operation_history |-> operation_history,
              escalation_log |-> esc.escalation_log,
              raised |-> esc.raised, allowed |-> esc.raised = "none",
              warning |-> IF esc.raised = "none"
                          THEN WarningMessage(resource_type, quota, new_usage)
                          ELSE None,
              trace |-> esc.trace \o (IF esc.raised = "none" THEN <<"return">>
                                       ELSE <<>>)]
    ELSE [resource_usage |-> SetUsage(resource_usage, resource_type, new_usage),
          operation_history |-> operation_history,
          escalation_log |-> escalation_log,
          raised |-> "none", allowed |-> TRUE, warning |-> None,
          trace |-> <<"resource_usage.set", "return">>]

\* the rest of check_resource_quota, on the instance of the model
AcceptBranch(resource_type, quota, new_usage) ==
    AcceptBranch_on(Self, now, resource_type, quota, new_usage)

\* variant of check_resource_quota: the usage of a quota that has a window
\* counts from zero again once the clock has advanced
check_resource_quota_window_reset(resource_type, amount) ==
    IF resource_type \notin DOMAIN RESOURCE_QUOTAS
    THEN [resource_usage |-> resource_usage,
          operation_history |-> operation_history,
          escalation_log |-> escalation_log,
          raised |-> "none", allowed |-> TRUE, warning |-> None,
          trace |-> <<"return">>]
    ELSE
    LET quota == RESOURCE_QUOTAS[resource_type]
        current_usage == IF resource_type = "api_requests" /\ now > 0
                         THEN 0
                         ELSE DictGet(resource_usage, resource_type, 0)
        new_usage == current_usage + amount
    IN  IF ExceedsCritical(quota, new_usage)
        THEN CriticalBranch(resource_type, amount, quota, current_usage)
        ELSE AcceptBranch(resource_type, quota, new_usage)

\* variant of check_resource_quota: once the log holds a terminate record
\* every later call is refused
check_resource_quota_latched(resource_type, amount) ==
    IF resource_type \notin DOMAIN RESOURCE_QUOTAS
    THEN [resource_usage |-> resource_usage,
          operation_history |-> operation_history,
          escalation_log |-> escalation_log,
          raised |-> "none", allowed |-> TRUE, warning |-> None,
          trace |-> <<"return">>]
    ELSE
    LET quota == RESOURCE_QUOTAS[resource_type]
        current_usage == DictGet(resource_usage, resource_type, 0)
        new_usage == current_usage + amount
        terminated == \E i \in 1..Len(escalation_log) :
                          escalation_log[i].severity = "terminate"
    IN  IF terminated \/ ExceedsCritical(quota, new_usage)
        THEN CriticalBranch(resource_type, amount, quota, current_usage)
        ELSE AcceptBranch(resource_type, quota, new_usage)

\* check_resource_quota: the state after the call and what the caller sees
check_resource_quota(resource_type, amount) ==
    IF resource_type \notin DOMAIN RESOURCE_QUOTAS
    THEN [resource_usage |-> resource_usage,
          operation_history |-> operation_history,
          escalation_log |-> escalation_log,
          raised |-> "none", allowed |-> TRUE, warning |-> None,
          trace |-> <<"return">>]
    ELSE
    LET quota == RESOURCE_QUOTAS[resource_type]
        current_usage == DictGet(resource_usage, resource_type, 0)
        new_usage == current_usage + amount
    IN  IF ExceedsCritical(quota, new_usage)
        THEN CriticalBranch(resource_type, amount, quota, current_usage)
        ELSE AcceptBranch(resource_type, quota, new_usage)

\* ------------------------------------------------------------------------
\* Actions
\* ------------------------------------------------------------------------

Init ==
    /\ agent_id = "test-agent"
    /\ resource_usage = [r \in {} |-> 0]
    /\ operation_history = <<>>
    /\ escalation_log = <<>>
    /\ now = 0
    /\ calls = 0
    /\ last = NoCall
    /\ threads = [t \in Threads |-> IdleThread]
    /\ cache = [k \in {} |-> None]
    /\ limiter_log = <<>>
    /\ heap = <<>>
    /\ policies = [a \in {} |-> None]
    /\ callee = None
    /\ _running = FALSE
    /\ _heartbeat_task = None
    /\ loops = [l \in HeartbeatCalls |-> NotStarted]

\* time passes between calls
Tick ==
    /\ now < MaxTime
    /\ now' = now + 1
    /\ UNCHANGED <<agent_id, resource_usage, operation_history, escalation_log,
                   calls, last>>
    /\ UNCHANGED <<threadVars, limiterVars, instanceVars, heartbeatVars>>

\* policy.check_operation_allowed(operation_type, operation_params)
CheckOperationAllowed ==
    /\ calls < MaxCalls
    /\ \E operation_type \in OperationType, operation_params \in ParamBags :
          LET out == check_operation_allowed(operation_type, operation_params)
          IN  /\ resource_usage' = out.resource_usage
              /\ operation_history' = out.operation_history
              /\ escalation_log' = out.escalation_log
              /\ last' = [op |-> "check_operation_allowed", type |-> operation_type,
                          operation_params |-> operation_params, amount |-> 0,
                          raised |-> out.raised, allowed |-> out.allowed,
                          warning |-> out.warning, trace |-> out.trace]
    /\ calls' = calls + 1
    /\ UNCHANGED <<agent_id, now>>
    /\ UNCHANGED <<threadVars, limiterVars, instanceVars, heartbeatVars>>

\* one call policy.check_resource_quota(resource_type, amount)
QuotaCall(resource_type, amount) ==
    LET out == check_resource_quota(resource_type, amount)
    IN  /\ resource_usage' = out.resource_usage
        /\ operation_history' = out.operation_history
        /\ escalation_log' = out.escalation_log
        /\ last' = [op |-> "check_resource_quota", type |-> resource_type,
                    operation_params |-> NoParams, amount |-> amount,
                    raised |-> out.raised, allowed |-> out.allowed,
                    warning |-> out.warning, trace |-> out.trace]
        /\ calls' = calls + 1
        /\ UNCHANGED <<agent_id, now>>
        /\ UNCHANGED <<threadVars, limiterVars, instanceVars, heartbeatVars>>

\* policy.check_resource_quota(resource_type, amount)
CheckResourceQuota ==
    /\ calls < MaxCalls
    /\ \E resource_type \in ResourceType, amount \in Amounts :
          QuotaCall(resource_type, amount)

\* policy.check_resource_quota(resource_type, amount), the amount of any sign
CheckResourceQuotaSigned ==
    /\ calls < MaxCalls
    /\ \E resource_type \in ResourceType, amount \in SignedAmounts :
          QuotaCall(resource_type, amount)

\* policy._escalate(trigger, severity, context), called on its own
Escalate ==
    /\ calls < MaxCalls
    /\ \E severity \in EscalationSeverity, input \in EscalationInputs :
          LET esc == _escalate(escalation_log, agent_id, input[1], severity,
                               input[2], now)
          IN  /\ escalation_log' = esc.escalation_log
              /\ last' = [op |-> "_escalate", type |-> severity,
                          operation_params |-> [operation |-> "_escalate",
                                                trigger |-> input[1],
                                                context |-> input[2]],
                          amount |-> 0, raised |-> esc.raised, allowed |-> FALSE,
                          warning |-> None,
                          trace |-> esc.trace
                                    \o (IF esc.raised = "none" THEN <<"return">>
                                        ELSE <<>>)]
    /\ calls' = calls + 1
    /\ UNCHANGED <<agent_id, resource_usage, operation_history, now>>
    /\ UNCHANGED <<threadVars, limiterVars, instanceVars, heartbeatVars>>

\* policy.should_escalate(trigger_type, severity, context); `allowed` holds
\* the boolean it returns
ShouldEscalate ==
    /\ calls < MaxCalls
    /\ \E severity \in EscalationSeverity, input \in EscalationInputs :
          last' = [op |-> "should_escalate", type |-> severity,
                   operation_params |-> [operation |-> "should_escalate",
                                         trigger |-> input[1],
                                         context |-> input[2]],
                   amount |-> 0, raised |-> "none",
                   allowed |-> should_escalate(input[1], severity, input[2]),
                   warning |-> None, trace |-> <<"return">>]
    /\ calls' = calls + 1
    /\ UNCHANGED <<agent_id, resource_usage, operation_history, escalation_log, now>>
    /\ UNCHANGED <<threadVars, limiterVars, instanceVars, heartbeatVars>>

\* the two public checks
Next ==
    \/ Tick
    \/ CheckOperationAllowed
    \/ CheckResourceQuota

Spec ==
    Init /\ [][Next]_vars

\* the public checks and the escalation methods called on their own
NextAll ==
    \/ Tick
    \/ CheckOperationAllowed
    \/ CheckResourceQuota
    \/ Escalate
    \/ ShouldEscalate

SpecAll ==
    Init /\ [][NextAll]_vars

\* check_resource_quota called with amounts of any sign
NextSigned ==
    \/ Tick
    \/ CheckResourceQuotaSigned

SpecSigned ==
    Init /\ [][NextSigned]_vars

\* ------------------------------------------------------------------------
\* check_resource_quota called from several threads: the read of the usage,
\* the threshold tests and the write of the usage are separate steps
\* ------------------------------------------------------------------------

\* current_usage = self.resource_usage.get(resource_type, 0.0);
\* new_usage = current_usage + amount
ThreadRead(t) ==
    /\ threads[t].pc = "idle"
    /\ calls < MaxCalls
    /\ \E resource_type \in ResourceType, amount \in Amounts :
          LET current_usage == DictGet(resource_usage, resource_type, 0)
          IN  threads' = [threads EXCEPT ![t] =
                  [pc |-> "test", resource_type |-> resource_type,
                   amount |-> amount, current_usage |-> current_usage,
                   new_usage |-> current_usage + amount,
                   raised |-> "none", allowed |-> FALSE, warning |-> None]]
    /\ calls' = calls + 1
    /\ UNCHANGED <<agent_id, resource_usage, operation_history, escalation_log,
                   now, last>>
    /\ UNCHANGED <<limiterVars, instanceVars, heartbeatVars>>

\* variant of ThreadTest: the critical test is made on the usage that was read
ThreadTest_checks_current(t) ==
    /\ threads[t].pc = "test"
    /\ LET f == threads[t]
           quota == RESOURCE_QUOTAS[f.resource_type]
       IN  IF ExceedsCritical(quota, f.current_usage)
           THEN LET out == CriticalBranch(f.resource_type, f.amount, quota,
                                          f.current_usage)
                IN  /\ operation_history' = out.operation_history
                    /\ escalation_log' = out.escalation_log
                    /\ threads' = [threads EXCEPT ![t].pc = "idle",
                                                  ![t].raised = out.raised]
           ELSE /\ threads' = [threads EXCEPT ![t].pc = "write"]
                /\ UNCHANGED <<operation_history, escalation_log>>
    /\ UNCHANGED <<agent_id, resource_usage, now, calls, last>>
    /\ UNCHANGED <<limiterVars, instanceVars, heartbeatVars>>

\* the critical test with its refusal (violation logged, escalation, raise)
\* and the warning test with its escalation
ThreadTest(t) ==
    /\ threads[t].pc = "test"
    /\ LET f == threads[t]
           quota == RESOURCE_QUOTAS[f.resource_type]
       IN  IF ExceedsCritical(quota, f.new_usage)
           THEN LET out == CriticalBranch(f.resource_type, f.amount, quota,
                                          f.current_usage)
                IN  /\ operation_history' = out.operation_history
                    /\ escalation_log' = out.escalation_log
                    /\ threads' = [threads EXCEPT ![t].pc = "idle",
                                                  ![t].raised = out.raised]
           ELSE IF ExceedsWarning(quota, f.new_usage)
           THEN LET esc == _escalate(escalation_log, agent_id,
                                     "resource_quota_warning", "warning",
                                     [agent_id |-> agent_id,
                                      resource_type |-> f.resource_type,
                                      usage_percent |->
                                          [num |-> f.new_usage * 100,
                                           den |-> quota.max_amount]],
                                     now)
                IN  /\ escalation_log' = esc.escalation_log
                    /\ operation_history' = operation_history
                    /\ threads' =
                         IF esc.raised # "none"
                         THEN [threads EXCEPT ![t].pc = "idle",
                                              ![t].raised = esc.raised]
                         ELSE [threads EXCEPT ![t].pc = "write",
                                              ![t].warning =
                                                  WarningMessage(f.resource_type,
                                                                 quota, f.new_usage)]
           ELSE /\ threads' = [threads EXCEPT ![t].pc = "write"]
                /\ UNCHANGED <<operation_history, escalation_log>>
    /\ UNCHANGED <<agent_id, resource_usage, now, calls, last>>
    /\ UNCHANGED <<limiterVars, instanceVars, heartbeatVars>>

\* variant of ThreadWrite: the amount is added to the usage found at the time
\* of the write
ThreadWrite_increments(t) ==
    /\ threads[t].pc = "write"
    /\ resource_usage' =
         SetUsage(resource_usage, threads[t].resource_type,
                  DictGet(resource_usage, threads[t].resource_type, 0)
                      + threads[t].amount)
    /\ threads' = [threads EXCEPT ![t].pc = "idle", ![t].allowed = TRUE]
    /\ UNCHANGED <<agent_id, operation_history, escalation_log, now, calls, last>>
    /\ UNCHANGED <<limiterVars, instanceVars, heartbeatVars>>

\* self.resource_usage[resource_type] = new_usage; return True, warning
ThreadWrite(t) ==
    /\ threads[t].pc = "write"
    /\ resource_usage' =
         SetUsage(resource_usage, threads[t].resource_type, threads[t].new_usage)
    /\ threads' = [threads EXCEPT ![t].pc = "idle", ![t].allowed = TRUE]
    /\ UNCHANGED <<agent_id, operation_history, escalation_log, now, calls, last>>
    /\ UNCHANGED <<limiterVars, instanceVars, heartbeatVars>>

\* the threads run check_resource_quota in any interleaving
NextThreads ==
    \/ Tick
    \/ \E t \in Threads : ThreadRead(t)
    \/ \E t \in Threads : ThreadTest(t)
    \/ \E t \in Threads : ThreadWrite(t)

SpecThreads ==
    Init /\ [][NextThreads]_vars

\* ------------------------------------------------------------------------
\* The rate limiter and its cache
\* ------------------------------------------------------------------------

\* ":".join(parts)
RECURSIVE JoinColon(_)
JoinColon(parts) ==
    IF Len(parts) = 0 THEN <<>>
    ELSE IF Len(parts) = 1 THEN parts[1]
    ELSE parts[1] \o <<":">> \o JoinColon(Tail(parts))

\* cache_key(prefix, *args)
cache_key(prefix, args) ==
    JoinColon(<<prefix>> \o args)

\* the values get_cache(key, default) can return at clock reading t: the
\* stored value while the key lives, the default once it has expired or when
\* it was never set. A key expires ttl seconds after it was set; a read in the
\* clock reading of the expiry can fall on either side. The value is stored
\* as the JSON text of a list of integers, which parses back to the list.
get_cache(store, key, default, t) ==
    IF key \notin DOMAIN store THEN {default}
    ELSE IF t < store[key].expires_at THEN {store[key].value}
    ELSE IF t = store[key].expires_at THEN {store[key].value, default}
    ELSE {default}

\* set_cache(key, value, ttl): client.setex(key, ttl, json.dumps(value))
set_cache(store, key, value, ttl, t) ==
    [k \in DOMAIN store \cup {key} |->
        IF k = key THEN [value |-> value, expires_at |-> t + ttl * TicksPerSecond]
        ELSE store[k]]

\* int(time.time()) at clock reading t
CurrentTime(t) ==
    t \div TicksPerSecond

\* RateLimiter(max_requests, window_seconds, platform)
RateLimiter(max_requests, window_seconds, platform) ==
    [max_requests |-> max_requests, window_seconds |-> window_seconds,
     platform |-> platform]

\* RateLimiter(max_requests, window_seconds): platform takes its default
RateLimiterDefault(max_requests, window_seconds) ==
    RateLimiter(max_requests, window_seconds, N_default)

PLATFORM_RATE_LIMITS ==
    [twitter   |-> RateLimiterDefault(300, 900),
     instagram |-> RateLimiterDefault(200, 3600),
     tiktok    |-> RateLimiterDefault(100, 3600),
     threads   |-> RateLimiterDefault(300, 900),
     default   |-> RateLimiterDefault(100, 3600)]

\* the limiter the calls of SpecLimiter are made on
TestLimiter ==
    RateLimiterDefault(LimiterMaxRequests, LimiterWindowSeconds)

\* the platform arguments of check_rate_limit; 'reddit' has no entry
PlatformNames ==
    {"twitter", "instagram", "tiktok", "threads", "default", "reddit"}

\* the identifier arguments
Identifiers ==
    {I_agent, I_trend_research}

\* [req_time for req_time in requests if req_time > window_start]
RECURSIVE InWindow(_, _)
InWindow(requests, window_start) ==
    IF Len(requests) = 0 THEN <<>>
    ELSE IF Head(requests) > window_start
         THEN <<Head(requests)>> \o InWindow(Tail(requests), window_start)
         ELSE InWindow(Tail(requests), window_start)

\* RateLimiter.is_allowed from the list read from the cache: what it returns
\* and the list it stores, if it stores one
is_allowed(limiter, read, t) ==
    LET current_time == CurrentTime(t)
        window_start == current_time - limiter.window_seconds
        requests == InWindow(read, window_start)
    IN  IF Len(requests) >= limiter.max_requests
        THEN [allowed |-> FALSE, remaining |-> 0, stores |-> FALSE,
              requests |-> requests]
        ELSE [allowed |-> TRUE,
              remaining |-> limiter.max_requests - (Len(requests) + 1),
              stores |-> TRUE,
              requests |-> Append(requests, current_time)]

\* one call limiter.is_allowed(identifier), made as platform `name`
LimiterCall(name, limiter, identifier) ==
    LET key == cache_key(S_rate_limit, <<limiter.platform, identifier>>)
    IN  \E read \in get_cache(cache, key, <<>>, now) :
           LET out == is_allowed(limiter, read, now)
           IN  /\ cache' = IF out.stores
                           THEN set_cache(cache, key, out.requests,
                                          limiter.window_seconds, now)
                           ELSE cache
               /\ limiter_log' = Append(limiter_log,
                                        [platform |-> name,
                                         identifier |-> identifier,
                                         time |-> now,
                                         allowed |-> out.allowed,
                                         remaining |-> out.remaining])

\* time passes, a fraction of a second at a time
LimiterTick ==
    /\ now < (LimiterWindowSeconds + MaxExtraTime) * TicksPerSecond
    /\ now' = now + 1
    /\ UNCHANGED <<agent_id, resource_usage, operation_history, escalation_log,
                   calls, last>>
    /\ UNCHANGED <<threadVars, limiterVars, instanceVars, heartbeatVars>>

\* limiter.is_allowed(identifier) on a limiter built with small arguments
IsAllowed ==
    /\ Len(limiter_log) < LimiterMaxRequests + MaxExtraCalls
    /\ \E identifier \in Identifiers :
          LimiterCall("default", TestLimiter, identifier)
    /\ UNCHANGED <<agent_id, resource_usage, operation_history, escalation_log,
                   now, calls, last>>
    /\ UNCHANGED <<threadVars, instanceVars, heartbeatVars>>

\* check_rate_limit(platform, identifier)
check_rate_limit ==
    /\ Len(limiter_log) < MaxPlatformCalls
    /\ \E platform \in PlatformNames, identifier \in Identifiers :
          LET limiter == IF platform \in DOMAIN PLATFORM_RATE_LIMITS
                         THEN PLATFORM_RATE_LIMITS[platform]
                         ELSE PLATFORM_RATE_LIMITS["default"]
          IN  LimiterCall(platform, limiter, identifier)
    /\ UNCHANGED <<agent_id, resource_usage, operation_history, escalation_log,
                   now, calls, last>>
    /\ UNCHANGED <<threadVars, instanceVars, heartbeatVars>>

\* sequential calls on one rate limiter
NextLimiter ==
    \/ LimiterTick
    \/ IsAllowed

SpecLimiter ==
    Init /\ [][NextLimiter]_vars

\* sequential calls of check_rate_limit
NextPlatforms ==
    \/ LimiterTick
    \/ check_rate_limit

SpecPlatforms ==
    Init /\ [][NextPlatforms]_vars

\* ------------------------------------------------------------------------
\* Several ContainmentPolicy instances in one process: the attributes of an
\* instance refer to objects of the heap
\* ------------------------------------------------------------------------

\* the class attributes, created when the class body runs
ClassObjects ==
    <<FORBIDDEN_OPERATIONS, RESOURCE_QUOTAS>>

\* the agents a policy is constructed for
Agents ==
    {"agent-a", "agent-b"}

\* the operation types and parameters of the calls on the instances
InstanceOperations ==
    {<<"file_system", bag>> : bag \in {b \in ParamBags :
                                          b.operation \in {"all_forbidden", "all_clean"}}}

\* the resource types and amounts of the calls on the instances
InstanceQuotaArgs ==
    {"memory", "cpu_time"} \X {50, 400}

\* variant of __init__: the three containers are attributes of the class,
\* created once and referred to by every instance
__init___shared(h, agent) ==
    LET base == Len(ClassObjects)
    IN  [heap |-> IF Len(h) > base THEN h
                  ELSE h \o <<[r \in {} |-> 0], <<>>, <<>>>>,
         self |-> [agent_id |-> agent,
                   resource_usage |-> base + 1,
                   operation_history |-> base + 2,
                   escalation_log |-> base + 3]]

\* ContainmentPolicy.__init__(agent_id): a new dict and two new lists are
\* created and bound to the attributes of the new instance
__init__(h, agent) ==
    [heap |-> h \o <<[r \in {} |-> 0], <<>>, <<>>>>,
     self |-> [agent_id |-> agent,
               resource_usage |-> Len(h) + 1,
               operation_history |-> Len(h) + 2,
               escalation_log |-> Len(h) + 3]]

\* the state of an instance: its attributes, dereferenced
InstanceState(h, p) ==
    [agent_id |-> p.agent_id,
     resource_usage |-> h[p.resource_usage],
     operation_history |-> h[p.operation_history],
     escalation_log |-> h[p.escalation_log]]

\* the heap after a method has left the containers of instance p as in `out`
Store(h, p, out) ==
    [i \in 1..Len(h) |->
        IF i = p.resource_usage THEN out.resource_usage
        ELSE IF i = p.operation_history THEN out.operation_history
        ELSE IF i = p.escalation_log THEN out.escalation_log
        ELSE h[i]]

\* the class is loaded: the heap holds the class attributes
LoadClass ==
    /\ heap = <<>>
    /\ heap' = ClassObjects
    /\ UNCHANGED <<agent_id, resource_usage, operation_history, escalation_log,
                   now, calls, last, policies, callee>>
    /\ UNCHANGED <<threadVars, limiterVars, heartbeatVars>>

\* ContainmentPolicy(agent_id=agent)
NewPolicy ==
    /\ heap # <<>>
    /\ \E agent \in Agents \ DOMAIN policies :
          LET made == __init__(heap, agent)
          IN  /\ heap' = made.heap
              /\ policies' = [a \in DOMAIN policies \cup {agent} |->
                                 IF a = agent THEN made.self ELSE policies[a]]
    /\ UNCHANGED <<agent_id, resource_usage, operation_history, escalation_log,
                   now, calls, last, callee>>
    /\ UNCHANGED <<threadVars, limiterVars, heartbeatVars>>

\* policies[agent].check_operation_allowed(operation_type, operation_params)
InstanceCheckOperationAllowed ==
    /\ calls < MaxCalls
    /\ \E agent \in DOMAIN policies, args \in InstanceOperations :
          LET out == check_operation_allowed_on(
                         InstanceState(heap, policies[agent]), now, args[1], args[2])
          IN  /\ heap' = Store(heap, policies[agent], out)
              /\ callee' = agent
              /\ last' = [op |-> "check_operation_allowed", type |-> args[1],
                          operation_params |-> args[2], amount |-> 0,
                          raised |-> out.raised, allowed |-> out.allowed,
                          warning |-> out.warning, trace |-> out.trace]
    /\ calls' = calls + 1
    /\ UNCHANGED <<agent_id, resource_usage, operation_history, escalation_log,
                   now, policies>>
    /\ UNCHANGED <<threadVars, limiterVars, heartbeatVars>>

\* policies[agent].check_resource_quota(resource_type, amount)
InstanceCheckResourceQuota ==
    /\ calls < MaxCalls
    /\ \E agent \in DOMAIN policies, args \in InstanceQuotaArgs :
          LET out == check_resource_quota_on(
                         InstanceState(heap, policies[agent]), now, args[1], args[2])
          IN  /\ heap' = Store(heap, policies[agent], out)
              /\ callee' = agent
              /\ last' = [op |-> "check_resource_quota", type |-> args[1],
                          operation_params |-> NoParams, amount |-> args[2],
                          raised |-> out.raised, allowed |-> out.allowed,
                          warning |-> out.warning, trace |-> out.trace]
    /\ calls' = calls + 1
    /\ UNCHANGED <<agent_id, resource_usage, operation_history, escalation_log,
                   now, policies>>
    /\ UNCHANGED <<threadVars, limiterVars, heartbeatVars>>

\* policies are constructed and called in any order
NextInstances ==
    \/ Tick
    \/ LoadClass
    \/ NewPolicy
    \/ InstanceCheckOperationAllowed
    \/ InstanceCheckResourceQuota

SpecInstances ==
    Init /\ [][NextInstances]_vars

\* ------------------------------------------------------------------------
\* The heartbeat of OpenClawStatusService: start_heartbeat coroutines on one
\* event loop, a coroutine runs from one await to the next without
\* interruption
\* ------------------------------------------------------------------------

\* a coroutine is inside the while loop of start_heartbeat
InLoop(l) ==
    loops[l].pc \in {"publishing", "sleeping"}

\* start_heartbeat is invoked: it returns at once when _running is set,
\* otherwise it sets _running, enters the loop and awaits publish_heartbeat
StartHeartbeat(l) ==
    /\ loops[l].pc = "new"
    /\ IF _running
       THEN /\ loops' = [loops EXCEPT ![l].pc = "returned"]
            /\ UNCHANGED _running
       ELSE /\ _running' = TRUE
            /\ loops' = [loops EXCEPT ![l].pc = "publishing"]
    /\ UNCHANGED <<agent_id, resource_usage, operation_history, escalation_log,
                   now, calls, last, _heartbeat_task>>
    /\ UNCHANGED <<threadVars, limiterVars, instanceVars>>

\* publish_heartbeat (and publish_full_status when it is due) completes or
\* raises; in both cases the coroutine goes on to asyncio.sleep(30)
Publish(l) ==
    /\ loops[l].pc = "publishing"
    /\ loops' = [loops EXCEPT ![l].pc = "sleeping"]
    /\ UNCHANGED <<agent_id, resource_usage, operation_history, escalation_log,
                   now, calls, last, _running, _heartbeat_task>>
    /\ UNCHANGED <<threadVars, limiterVars, instanceVars>>

\* the sleep ends and the coroutine evaluates `while self._running`
WakeUp(l) ==
    /\ loops[l].pc = "sleeping"
    /\ loops' = [loops EXCEPT ![l].pc = IF _running THEN "publishing"
                                        ELSE "exited"]
    /\ UNCHANGED <<agent_id, resource_usage, operation_history, escalation_log,
                   now, calls, last, _running, _heartbeat_task>>
    /\ UNCHANGED <<threadVars, limiterVars, instanceVars>>

\* stop_heartbeat: _running is cleared and the task held in _heartbeat_task,
\* if any, is cancelled; `stopped` marks the loops that were started earlier
StopHeartbeat ==
    /\ _running' = FALSE
    /\ loops' = [l \in HeartbeatCalls |->
                    IF InLoop(l)
                    THEN [pc |-> IF _heartbeat_task # None /\ _heartbeat_task = l
                                 THEN "exited"
                                 ELSE loops[l].pc,
                          stopped |-> TRUE]
                    ELSE loops[l]]
    /\ UNCHANGED <<agent_id, resource_usage, operation_history, escalation_log,
                   now, calls, last, _heartbeat_task>>
    /\ UNCHANGED <<threadVars, limiterVars, instanceVars>>

\* the service is started and stopped while its coroutines run
NextHeartbeat ==
    \/ \E l \in HeartbeatCalls : StartHeartbeat(l)
    \/ \E l \in HeartbeatCalls : Publish(l)
    \/ \E l \in HeartbeatCalls : WakeUp(l)
    \/ StopHeartbeat

SpecHeartbeat ==
    Init /\ [][NextHeartbeat]_vars

\* ------------------------------------------------------------------------
\* Vocabulary of the properties
\* ------------------------------------------------------------------------

\* the step is a public call (and not the passage of time)
IsCall ==
    calls' = calls + 1

\* the step is a call of check_resource_quota
IsQuotaCall ==
    IsCall /\ last'.op = "check_resource_quota"

\* the step is a call of check_operation_allowed
IsOperationCall ==
    IsCall /\ last'.op = "check_operation_allowed"

\* usage of r, 0 for a resource that was never written
UsageOf(usage, r) ==
    IF r \in DOMAIN usage THEN usage[r] ELSE 0

\* n > max_amount[r] * critical_threshold[r], from the quota table
AboveCritical(r, n) ==
    n * ThresholdScale > RESOURCE_QUOTAS[r].max_amount * RESOURCE_QUOTAS[r].critical_threshold

\* n > max_amount[r] * warning_threshold[r], from the quota table
AboveWarning(r, n) ==
    n * ThresholdScale > RESOURCE_QUOTAS[r].max_amount * RESOURCE_QUOTAS[r].warning_threshold

\* n < max_amount[r] * warning_threshold[r], from the quota table
BelowWarning(r, n) ==
    n * ThresholdScale < RESOURCE_QUOTAS[r].max_amount * RESOURCE_QUOTAS[r].warning_threshold

\* the prospective total of the quota call made by the step
ProspectiveUsage ==
    UsageOf(resource_usage, last'.type) + last'.amount

\* ------------------------------------------------------------------------
\* Properties
\* ------------------------------------------------------------------------

\* C1: after any sequence of sequential check_resource_quota calls with
\* amounts >= 0, every resource type with a quota has
\* resource_usage[r] <= max_amount[r] * critical_threshold[r].
C1_UsageWithinCritical ==
    \A r \in DOMAIN resource_usage :
        r \in DOMAIN RESOURCE_QUOTAS => ~AboveCritical(r, resource_usage[r])

\* C1 witness: a committed usage sits exactly on max_amount * critical_threshold
\* after one call was accepted and the next one refused.
C1_Witness ==
    /\ "concurrent_tasks" \in DOMAIN resource_usage
    /\ resource_usage["concurrent_tasks"] * ThresholdScale
         = RESOURCE_QUOTAS["concurrent_tasks"].max_amount
             * RESOURCE_QUOTAS["concurrent_tasks"].critical_threshold
    /\ last.op = "check_resource_quota"
    /\ last.raised # "none"

\* C2: a check_resource_quota call whose prospective total exceeds
\* max_amount * critical_threshold is refused (it raises) and leaves
\* resource_usage unchanged for every resource type.
C2_RefusedLeavesUsage ==
    [][(IsQuotaCall /\ AboveCritical(last'.type, ProspectiveUsage))
         => (last'.raised # "none" /\ resource_usage' = resource_usage)]_vars

\* C2 witness: a call was refused on a policy that already holds usage.
C2_Witness ==
    /\ last.op = "check_resource_quota"
    /\ last.raised # "none"
    /\ last.amount > 0
    /\ \E r \in DOMAIN resource_usage : resource_usage[r] > 0

\* C3: when check_resource_quota refuses a request, the exception that reaches
\* the caller is ResourceQuotaExceededError and not EscalationTriggeredError.
C3_RefusalRaisesQuotaError ==
    (last.op = "check_resource_quota" /\ last.raised # "none")
        => last.raised = "ResourceQuotaExceededError"

C5_MemoryScenario ==
    [][/\ (calls = 0 /\ IsQuotaCall /\ last'.type = "memory" /\ last'.amount = 400)
            => /\ last'.raised = "none"
               /\ last'.allowed
               /\ last'.warning # None
               /\ UsageOf(resource_usage', "memory") = 400
       /\ (/\ calls = 1 /\ last.op = "check_resource_quota"
           /\ last.type = "memory" /\ last.amount = 400
           /\ IsQuotaCall /\ last'.type = "memory" /\ last'.amount = 100)
            => /\ last'.raised = "ResourceQuotaExceededError"
               /\ UsageOf(resource_usage', "memory") = 400]_vars

\* C6: a first call on a fresh policy that brings usage to exactly 80% of
\* max_amount (API_REQUESTS 400 of 500, CONCURRENT_TASKS 4 of 5) returns
\* (True, warning) with warning not None.
C6_EightyPercentWarns ==
    (/\ calls = 1
     /\ last.op = "check_resource_quota"
     /\ \/ (last.type = "api_requests" /\ last.amount = 400)
        \/ (last.type = "concurrent_tasks" /\ last.amount = 4))
        => (last.raised = "none" /\ last.allowed /\ last.warning # None)

\* C7: each successful check_resource_quota(r, a) with a > 0 sets
\* resource_usage[r] to its previous value plus exactly a, and no
\* check_resource_quota call changes the usage of a resource type other than r.
C7_CommitExactAmount ==
    [][IsQuotaCall =>
         /\ (last'.raised = "none" /\ last'.amount > 0)
              => /\ last'.type \in DOMAIN resource_usage'
                 /\ resource_usage'[last'.type]
                      = UsageOf(resource_usage, last'.type) + last'.amount
                 /\ resource_usage'[last'.type] > UsageOf(resource_usage, last'.type)
         /\ \A r \in ResourceType \ {last'.type} :
              /\ (r \in DOMAIN resource_usage') <=> (r \in DOMAIN resource_usage)
              /\ UsageOf(resource_usage', r) = UsageOf(resource_usage, r)]_vars

\* C7 witness: a positive amount was committed while another resource type
\* already had usage.
C7_Witness ==
    /\ last.op = "check_resource_quota"
    /\ last.raised = "none"
    /\ last.amount > 0
    /\ \E r \in DOMAIN resource_usage : r # last.type /\ resource_usage[r] > 0

\* the events that end a call with an exception
RaiseEvents ==
    {"raise SecurityViolationError", "raise ResourceQuotaExceededError",
     "raise EscalationTriggeredError"}

\* new is old with exactly one record appended
OneAppended(old, new) ==
    /\ Len(new) = Len(old) + 1
    /\ SubSeq(new, 1, Len(old)) = old

\* C8: the audit trail is written before the error leaves the call: a
\* check_operation_allowed that raises SecurityViolationError has appended
\* exactly one 'forbidden_operation' record to operation_history; a refused
\* check_resource_quota has appended one resource-violation record to
\* operation_history and then one 'resource_quota_critical' record with
\* severity 'terminate' to escalation_log, in that order, before raising.
C8_AuditBeforeRaise ==
    [][IsCall =>
         /\ (last'.op = "check_operation_allowed"
                /\ last'.raised = "SecurityViolationError")
              => /\ OneAppended(operation_history, operation_history')
                 /\ LET rec == operation_history'[Len(operation_history')]
                    IN  /\ "violation_type" \in DOMAIN rec
                        /\ rec.violation_type = "forbidden_operation"
                 /\ last'.trace = <<"operation_history.append",
                                    "raise SecurityViolationError">>
         /\ (last'.op = "check_resource_quota" /\ last'.raised # "none")
              => /\ OneAppended(operation_history, operation_history')
                 /\ LET rec == operation_history'[Len(operation_history')]
                    IN  /\ "violation_type" \notin DOMAIN rec
                        /\ rec.resource_type = last'.type
                        /\ rec.requested_amount = last'.amount
                 /\ OneAppended(escalation_log, escalation_log')
                 /\ LET esc == escalation_log'[Len(escalation_log')]
                    IN  /\ esc.trigger = "resource_quota_critical"
                        /\ esc.severity = "terminate"
                 /\ Len(last'.trace) = 3
                 /\ last'.trace[1] = "operation_history.append"
                 /\ last'.trace[2] = "escalation_log.append"
                 /\ last'.trace[3] \in RaiseEvents]_vars

\* C8 witness: a quota refusal was logged after a forbidden operation had
\* been logged.
C8_Witness ==
    /\ last.op = "check_resource_quota"
    /\ last.raised # "none"
    /\ Len(operation_history) = 2
    /\ "violation_type" \in DOMAIN operation_history[1]
    /\ Len(escalation_log) = 1

IsViolationOf(rec, operation_type, operation_params) ==
    /\ "violation_type" \in DOMAIN rec
    /\ rec.violation_type = "forbidden_operation"
    /\ rec.operation_type = operation_type
    /\ rec.operation_params = operation_params

\* C10: denial is never cached or suppressed: a check_operation_allowed call
\* that repeats the parameters of a call refused before raises
\* SecurityViolationError again and appends one more record of its own to
\* operation_history, whatever was logged before.
C10_DenialRepeats ==
    [][(/\ IsOperationCall
        /\ \E i \in 1..Len(operation_history) :
              IsViolationOf(operation_history[i], last'.type, last'.operation_params))
         => /\ last'.raised = "SecurityViolationError"
            /\ OneAppended(operation_history, operation_history')
            /\ IsViolationOf(operation_history'[Len(operation_history')],
                             last'.type, last'.operation_params)]_vars

\* C10 witness: the same forbidden call was made twice and left two records.
C10_Witness ==
    /\ last.op = "check_operation_allowed"
    /\ last.raised = "SecurityViolationError"
    /\ Len(operation_history) = 2
    /\ IsViolationOf(operation_history[1], last.type, last.operation_params)
    /\ IsViolationOf(operation_history[2], last.type, last.operation_params)

\* old is a prefix of new
IsPrefix(old, new) ==
    /\ Len(old) <= Len(new)
    /\ SubSeq(new, 1, Len(old)) = old

\* positions of the fatal records the step has appended to escalation_log
FatalAppended ==
    {i \in (Len(escalation_log) + 1)..Len(escalation_log') :
        escalation_log'[i].severity \in {"block", "terminate"}}

\* C11: no fatal escalation is silent: every record with severity 'block' or
\* 'terminate' is appended to escalation_log by a call that ends by raising an
\* exception, one record per raised exception; no call that returns normally
\* (and no passage of time) appends a fatal record.
C11_FatalEscalationRaises ==
    [][FatalAppended # {}
         => (IsCall /\ last'.raised # "none" /\ Cardinality(FatalAppended) = 1)]_vars

\* C11 witness: _escalate called with severity block has logged the record and
\* raised, after a terminate escalation of a quota refusal.
C11_Witness ==
    /\ last.op = "_escalate"
    /\ last.type = "block"
    /\ last.raised = "EscalationTriggeredError"
    /\ Len(escalation_log) = 2
    /\ escalation_log[1].severity = "terminate"
    /\ escalation_log[2].severity = "block"

\* the parameter bags (by their 'operation' value) whose own parameter matches
\* the denylist of the type, read off the strings:
\*   file_system: "/etc/passwd" and "/root" match; "/app/data/file.txt" and
\*     a bag without 'path' do not
\*   process: "subprocess.run(...)" and "evaluate" (contains eval) match;
\*     "ls -l" and "pip install requests" do not
\*   database: "DROP TABLE users", "drop table users" and "Truncate t" match;
\*     "SELECT 1" does not
DeniedBags ==
    [file_system |-> {"all_forbidden", "variants"},
     process     |-> {"all_forbidden", "variants"},
     database    |-> {"all_forbidden", "variants", "disputed"}]

C13_PrivateNetworkRefused ==
    (last.op = "check_operation_allowed" /\ last.type = "network")
        => IF last.operation_params.url \in {U_private_bare, U_ten, U_private_scheme}
           THEN last.raised = "SecurityViolationError"
           ELSE last.raised = "none" /\ last.allowed

\* the operation types without a denylist
UncheckedTypes ==
    {"content_generation", "api_call", "skill_execution"}

\* C14: for the operation types content_generation, api_call and
\* skill_execution, check_operation_allowed returns True for every parameter
\* bag and writes nothing, also when the bag holds values that are refused
\* under the network, file_system, process or database type.
C14_UncheckedTypesPass ==
    [][(IsOperationCall /\ last'.type \in UncheckedTypes)
         => /\ last'.raised = "none"
            /\ last'.allowed
            /\ UNCHANGED <<resource_usage, operation_history, escalation_log>>]_vars

\* C14 witness: an api_call carrying the all-forbidden bag was allowed on a
\* policy that already holds a violation record.
C14_Witness ==
    /\ last.op = "check_operation_allowed"
    /\ last.type = "api_call"
    /\ last.operation_params.operation = "all_forbidden"
    /\ last.raised = "none"
    /\ Len(operation_history) = 1

\* C15: operation_history and escalation_log are append-only: in every step
\* the previous content of each log is a prefix of its new content, and
\* agent_id never changes.
C15_LogsAppendOnly ==
    [][/\ IsPrefix(operation_history, operation_history')
       /\ IsPrefix(escalation_log, escalation_log')
       /\ agent_id' = agent_id]_vars

\* C15 witness: each log has grown twice.
C15_Witness ==
    /\ Len(escalation_log) = 2
    /\ Len(operation_history) = 2

\* C16: a call in the warning band (M*w < new_usage <= M*c) never raises: it
\* commits resource_usage[r] = new_usage, appends exactly one escalation_log
\* record with trigger 'resource_quota_warning' and severity 'warning', leaves
\* operation_history unchanged, and returns (True, warning) where the warning
\* names the resource.
C16_WarningBandContinues ==
    [][(/\ IsQuotaCall
        /\ AboveWarning(last'.type, ProspectiveUsage)
        /\ ~AboveCritical(last'.type, ProspectiveUsage))
         => /\ last'.raised = "none"
            /\ last'.type \in DOMAIN resource_usage'
            /\ resource_usage'[last'.type] = ProspectiveUsage
            /\ OneAppended(escalation_log, escalation_log')
            /\ LET esc == escalation_log'[Len(escalation_log')]
               IN  /\ esc.trigger = "resource_quota_warning"
                   /\ esc.severity = "warning"
            /\ operation_history' = operation_history
            /\ last'.allowed
            /\ last'.warning # None
            /\ last'.warning.resource_type = last'.type]_vars

\* C16 witness: a warning was returned and escalated on a policy whose history
\* holds a violation record.
C16_Witness ==
    /\ last.op = "check_resource_quota"
    /\ last.raised = "none"
    /\ last.warning # None
    /\ Len(operation_history) = 1
    /\ Len(escalation_log) >= 1
    /\ escalation_log[Len(escalation_log)].severity = "warning"

\* the record check_resource_quota logs for a refused call
IsQuotaViolation(rec) ==
    /\ "violation_type" \notin DOMAIN rec
    /\ "requested_amount" \in DOMAIN rec

\* seconds between two readings of the clock; the clock counts in units of
\* the API_REQUESTS window
ElapsedSeconds(t0, t1) ==
    (t1 - t0) * RESOURCE_QUOTAS["api_requests"].window_seconds

C18_UsageNeverDecremented ==
    [][IsQuotaCall
         => \A r \in ResourceType :
               UsageOf(resource_usage', r) >= UsageOf(resource_usage, r)]_vars

\* C19: should_escalate returns True for every defined severity with any
\* trigger name and context, and leaves resource_usage, operation_history and
\* escalation_log unchanged.
C19_ShouldEscalateAlwaysTrue ==
    [][(IsCall /\ last'.op = "should_escalate")
         => /\ last'.type \in {"warning", "block", "terminate", "hitl_review"}
            /\ last'.raised = "none"
            /\ last'.allowed = TRUE
            /\ UNCHANGED <<resource_usage, operation_history, escalation_log>>]_vars

\* C19 witness: should_escalate answered True for hitl_review on a policy that
\* holds usage and an escalation record.
C19_Witness ==
    /\ last.op = "should_escalate"
    /\ last.type = "hitl_review"
    /\ last.allowed
    /\ escalation_log # <<>>
    /\ DOMAIN resource_usage # {}

\* C20: for every severity, _escalate first appends exactly one record
\* (agent_id, trigger, severity, context, timestamp) to escalation_log; it then
\* raises EscalationTriggeredError if and only if the severity is terminate or
\* block, and returns normally for warning and hitl_review; it never changes
\* resource_usage or operation_history.
C20_EscalateContract ==
    [][(IsCall /\ last'.op = "_escalate")
         => /\ OneAppended(escalation_log, escalation_log')
            /\ LET esc == escalation_log'[Len(escalation_log')]
               IN  /\ DOMAIN esc = {"agent_id", "trigger", "severity", "context",
                                    "timestamp"}
                   /\ esc.agent_id = agent_id
                   /\ esc.trigger = last'.operation_params.trigger
                   /\ esc.severity = last'.type
                   /\ esc.context = last'.operation_params.context
                   /\ esc.timestamp = now
            /\ last'.trace[1] = "escalation_log.append"
            /\ (last'.raised = "EscalationTriggeredError")
                  <=> (last'.type \in {"terminate", "block"})
            /\ (last'.type \in {"warning", "hitl_review"}) => (last'.raised = "none")
            /\ UNCHANGED <<resource_usage, operation_history>>]_vars

\* C20 witness: _escalate returned normally for hitl_review after it had raised
\* for terminate, and both records are in the log.
C20_Witness ==
    /\ last.op = "_escalate"
    /\ last.type = "hitl_review"
    /\ last.raised = "none"
    /\ Len(escalation_log) = 2
    /\ escalation_log[1].severity = "terminate"
    /\ escalation_log[1].trigger = "low_confidence"
    /\ escalation_log[2].severity = "hitl_review"

C25_PackageInstallRefused ==
    (/\ last.op = "check_operation_allowed"
     /\ last.type = "process"
     /\ AnyContained(FORBIDDEN_OPERATIONS.package_installation,
                     DictGet(last.operation_params, "command", <<>>))
     /\ ~AnyContained(FORBIDDEN_OPERATIONS.shell_commands,
                      DictGet(last.operation_params, "command", <<>>)))
        => last.raised = "SecurityViolationError"

\* C27: a refusal does not latch. Whatever operation_history and
\* escalation_log hold, check_resource_quota(r, a) succeeds exactly when
\* current usage of r plus a is within max * critical, and
\* check_operation_allowed on parameters that match no denylist succeeds.
C27_RefusalDoesNotLatch ==
    [][/\ IsQuotaCall
            => /\ (last'.raised = "none")
                     <=> ~AboveCritical(last'.type, ProspectiveUsage)
               /\ (last'.raised = "none") => last'.allowed
       /\ (IsOperationCall /\ last'.operation_params.operation = "all_clean")
            => (last'.raised = "none" /\ last'.allowed)]_vars

\* C27 witness: check_resource_quota succeeded on the resource whose earlier
\* call was refused and escalated with severity terminate.
C27_Witness ==
    /\ last.op = "check_resource_quota"
    /\ last.raised = "none"
    /\ last.allowed
    /\ Len(operation_history) = 1
    /\ IsQuotaViolation(operation_history[1])
    /\ operation_history[1].resource_type = last.type
    /\ Len(escalation_log) >= 1
    /\ escalation_log[1].severity = "terminate"

\* the resources whose warning threshold equals their critical threshold
EqualThresholdResources ==
    {"api_requests", "database_connections", "redis_connections",
     "concurrent_tasks"}

C22_WriteStoresStaleSum ==
    [][\A t \in Threads :
          (threads[t].pc = "write" /\ threads'[t].pc = "idle")
              => /\ threads'[t].allowed
                 /\ resource_usage'[threads[t].resource_type]
                      = threads[t].current_usage + threads[t].amount]_vars

\* C22 witness: both threads were allowed on the same resource, the usage
\* holds only the amount of one of them, and the two accepted amounts together
\* exceed max_amount * critical_threshold.
C22_Witness ==
    \E r \in ResourceType :
        /\ \A t \in Threads :
              /\ threads[t].pc = "idle"
              /\ threads[t].allowed
              /\ threads[t].resource_type = r
              /\ threads[t].amount > 0
        /\ calls = 2
        /\ \E t \in Threads : UsageOf(resource_usage, r) = threads[t].amount
        /\ AboveCritical(r, threads["thread-1"].amount + threads["thread-2"].amount)

\* C26: under any interleaving of concurrent check_resource_quota calls the
\* stored resource_usage[r] never exceeds max_amount[r] * critical_threshold[r],
\* and neither does a value a thread is about to write.
C26_InterleavedUsageWithinCritical ==
    /\ \A r \in DOMAIN resource_usage : ~AboveCritical(r, resource_usage[r])
    /\ \A t \in Threads :
          threads[t].pc = "write"
              => ~AboveCritical(threads[t].resource_type, threads[t].new_usage)

\* C26 witness: a thread holds an accepted value to write while the stored
\* usage of the resource has moved on from the value the thread read.
C26_Witness ==
    \E t \in Threads :
        /\ threads[t].pc = "write"
        /\ UsageOf(resource_usage, threads[t].resource_type)
             > threads[t].current_usage
        /\ AboveCritical(threads[t].resource_type,
                         UsageOf(resource_usage, threads[t].resource_type)
                             + threads[t].amount)

\* the entries of the limiter log, up to entry n, that were admitted for the
\* platform and identifier of entry i
AdmittedLike(log, i, n) ==
    {j \in 1..n : /\ log[j].allowed
                  /\ log[j].platform = log[i].platform
                  /\ log[j].identifier = log[i].identifier}

\* C23: RateLimiter.is_allowed evicts by time window. For sequential calls on
\* one identifier at most max_requests calls are admitted within any span of
\* window_seconds seconds; a call is admitted exactly when fewer than
\* max_requests admitted calls are newer than now - window_seconds, so a
\* denied identifier is admitted again once old timestamps have left the
\* window; a denied call returns (False, 0) and stores no timestamp.
C23_WindowedEviction ==
    [][(limiter_log' # limiter_log) =>
         LET log == limiter_log'
             n == Len(log)
             e == log[n]
             span == LimiterWindowSeconds * TicksPerSecond
         IN  /\ \A i \in 1..n :
                   Cardinality({j \in AdmittedLike(log, i, n) :
                                   /\ log[i].time <= log[j].time
                                   /\ log[j].time < log[i].time + span})
                       <= LimiterMaxRequests
             /\ e.allowed
                  <=> Cardinality({j \in AdmittedLike(log, n, n - 1) :
                                      log[j].time > e.time - span})
                          < LimiterMaxRequests
             /\ ~e.allowed => (e.remaining = 0 /\ cache' = cache)]_vars

\* C24: rate limits are tracked per platform. The remaining allowance that
\* check_rate_limit returns for a platform and an identifier counts only the
\* requests admitted for that platform and identifier: requests admitted for
\* another platform do not reduce it.
C24_PerPlatformAllowance ==
    \A i \in 1..Len(limiter_log) :
        (limiter_log[i].allowed /\ limiter_log[i].platform \in DOMAIN PLATFORM_RATE_LIMITS)
            => limiter_log[i].remaining
                 = PLATFORM_RATE_LIMITS[limiter_log[i].platform].max_requests
                     - Cardinality({j \in AdmittedLike(limiter_log, i, i) :
                           CurrentTime(limiter_log[j].time)
                               > CurrentTime(limiter_log[i].time)
                                   - PLATFORM_RATE_LIMITS[limiter_log[i].platform]
                                         .window_seconds})

\* C28: two ContainmentPolicy instances share no mutable state. A call on one
\* instance leaves resource_usage, operation_history and escalation_log of
\* every other instance unchanged, and no step changes the class-level tables
\* FORBIDDEN_OPERATIONS and RESOURCE_QUOTAS once the class is loaded.
C28_InstancesIsolated ==
    [][/\ \A a \in DOMAIN policies :
             (IsCall /\ callee' # a)
                 => InstanceState(heap', policies'[a])
                      = InstanceState(heap, policies[a])
       /\ (heap # <<>>) => SubSeq(heap', 1, Len(ClassObjects)) = ClassObjects]_vars

\* C28 witness: both instances exist and have recorded usage, and the two
\* usages differ.
C28_Witness ==
    /\ DOMAIN policies = Agents
    /\ \A a \in Agents :
          DOMAIN InstanceState(heap, policies[a]).resource_usage # {}
    /\ \E a \in Agents, b \in Agents :
          InstanceState(heap, policies[a]).resource_usage
              # InstanceState(heap, policies[b]).resource_usage

\* C30: at most one heartbeat loop is active for one OpenClawStatusService.
\* start_heartbeat called while a loop runs returns without starting another,
\* and a loop that was running when stop_heartbeat was called exits at its
\* next wake-up, also when start_heartbeat has been called again before that
\* wake-up; so the loops that have not been stopped are never more than one
\* and no stopped loop publishes again after waking.
C30_OneHeartbeatLoop ==
    [][/\ \A l \in HeartbeatCalls :
             (loops[l].pc = "new" /\ loops'[l].pc # "new"
              /\ \E k \in HeartbeatCalls : InLoop(k) /\ ~loops[k].stopped)
                 => loops'[l].pc = "returned"
       /\ \A l \in HeartbeatCalls :
             (loops[l].pc = "sleeping" /\ loops[l].stopped
              /\ loops'[l].pc # "sleeping")
                 => loops'[l].pc = "exited"
       /\ Cardinality({l \in HeartbeatCalls :
                          loops'[l].pc \in {"publishing", "sleeping"}
                          /\ ~loops'[l].stopped}) <= 1]_vars

\* ------------------------------------------------------------------------
\* Shape of the state
\* ------------------------------------------------------------------------

TypeOK ==
    /\ agent_id = "test-agent"
    /\ DOMAIN resource_usage \subseteq ResourceType
    /\ \A r \in DOMAIN resource_usage : resource_usage[r] \in Int
    /\ Len(operation_history) <= calls
    /\ Len(escalation_log) <= calls
    /\ now \in Nat
    /\ calls \in 0..MaxCalls
    /\ \A t \in Threads : threads[t].pc \in {"idle", "test", "write"}
    /\ \A i \in 1..Len(limiter_log) :
          /\ limiter_log[i].allowed \in BOOLEAN
          /\ limiter_log[i].remaining \in Nat
    /\ DOMAIN policies \subseteq Agents
    /\ _running \in BOOLEAN
    /\ _heartbeat_task = None
    /\ \A l \in HeartbeatCalls :
          loops[l].pc \in {"new", "returned", "publishing", "sleeping", "exited"}
    /\ last.op \in {"none", "check_operation_allowed", "check_resource_quota",
                   "_escalate", "should_escalate"}
    /\ last.raised \in {"none", "SecurityViolationError",
                        "ResourceQuotaExceededError", "EscalationTriggeredError"}

====
